---- MODULE Spec2Model ----
(***************************************************************************)
(* A model of the industrial product scraper: the Crawler (category and    *)
(* product discovery), the Parser (detail extraction), the Downloader      *)
(* (asset retrieval) and the per-product pipeline of main.                 *)
(***************************************************************************)
EXTENDS Integers, Sequences, FiniteSets, TLC

\* ------------------------------------------------------------------ bounds
\* Non-empty pages the listing API holds per category (the data is finite).
MaxPages == 2
\* Matches per page: the scaled-down page_size of fetch_category_products_and_codes.
MaxPageLen == 2

\* -------------------------------------------------------- generic helpers
RECURSIVE Flatten(_)
Flatten(ss) == IF ss = <<>> THEN <<>> ELSE Head(ss) \o Flatten(Tail(ss))

SeqsUpTo(S, n) == UNION {[1..k -> S] : k \in 0..n}

MapSeq(s, F(_)) == [i \in 1..Len(s) |-> F(s[i])]

\* ================================================================ CRAWLER
\* Product codes of the catalog (the examples of the navigation guide).
CodeList == <<"M2338T", "GPL3310">>

\* The catalog behind the listing API: the code of the j-th match of page
\* `index`. Neighbours in a page differ; the same code recurs on the next page
\* and in every category, so duplicates across pages and categories occur.
CodeAt(index, j) == CodeList[((index + j) % Len(CodeList)) + 1]

\* The subcategories of the catalog page: display name and category URL.
SiteCategories ==
  << [name |-> "AC Motors", url |-> <<"https://www.baldor.com/catalog", "#category=", "2">>],
     [name |-> "DC Motors", url |-> <<"https://www.baldor.com/catalog", "#category=", "4">>] >>

VARIABLES
  pc,              \* position of Crawler.run
  playwright,      \* self.playwright: "unset", "running", "stopped"
  browser,         \* self.browser:    "unset", "open", "closed"
  page,            \* self.page:       "unset", "open", "closed"
  catPage,         \* the page of resolve_category_url: "none", "open", "closed"
  setupFailed,     \* setup_browser raised (run's except clause ran)
  names,           \* category_names of find_categories
  nameIdx,         \* index of the name being resolved
  categories,      \* self.categories
  catIdx,          \* index of the category being scraped
  page_index,      \* page_index of fetch_category_products_and_codes
  all_codes,       \* all_codes of fetch_category_products_and_codes
  all_products,    \* all_products of fetch_category_products_and_codes
  products,        \* self.products
  product_matches, \* self.product_matches
  matchKinds,      \* kinds of match the listing API serves in this run
  requests,        \* history: the API requests issued, with what each got
  result           \* what run handed to its caller

crawlerVars == <<pc, playwright, browser, page, catPage, setupFailed, names,
                 nameIdx, categories, catIdx, page_index, all_codes,
                 all_products, products, product_matches, matchKinds,
                 requests, result>>

\* The pages the API can serve at `index`: up to MaxPageLen matches, each a map
\* with a code ("map"), a map without one ("nocode") or no map ("notmap");
\* nothing beyond the last page of data.
PagesAt(kinds, index) ==
  IF index >= MaxPages THEN {<<>>}
  ELSE {[j \in 1..Len(ks) |-> [kind |-> ks[j], code |-> CodeAt(index, j)]] :
          ks \in SeqsUpTo(kinds, MaxPageLen)}

\* url.split("#category=")[-1]
CategoryId(url) == url[Len(url)]

\* f"https://www.baldor.com/catalog/{code}"
ProductUrl(code) == <<"https://www.baldor.com/catalog/", code>>

\* get_products: the JSON body, or the fallback structure on any failure.
GetProducts(resp) ==
  IF resp.kind = "failed"
    THEN [hasMatches |-> TRUE, matches |-> <<>>]
    ELSE [hasMatches |-> resp.kind = "json", matches |-> resp.matches]

\* `if not products: break`
LoopBreaksMut(prods) == FALSE
LoopBreaks(prods) == prods = <<>>

\* codes = [product["code"] for product in products]: the first match that is
\* no map raises TypeError (caught, codes = []), the first map without a code
\* raises KeyError (not caught here).
ExtractCodes(prods) ==
  LET bad == {i \in 1..Len(prods) : prods[i].kind # "map"}
      first == CHOOSE i \in bad : \A j \in bad : i <= j
  IN  IF bad = {} THEN [raised |-> FALSE, codes |-> MapSeq(prods, LAMBDA p : p.code)]
      ELSE IF prods[first].kind = "notmap" THEN [raised |-> FALSE, codes |-> <<>>]
      ELSE [raised |-> TRUE, codes |-> <<>>]

\* `page_index += 1`
NextPageIndexSkips(i) == i + 2
NextPageIndex(i) == i + 1

\* list.extend
ExtendDedup(acc, new) == acc \o SelectSeq(new, LAMBDA x : \A i \in 1..Len(acc) : acc[i] # x)
Extend(acc, new) == acc \o new

InitCrawler ==
  LET NoResult == [kind |-> "none", urls |-> <<>>, meta |-> <<>>]
  IN
  /\ pc = "start_playwright"
  /\ playwright = "unset" /\ browser = "unset" /\ page = "unset"
  /\ catPage = "none"
  /\ setupFailed = FALSE
  /\ names = <<>> /\ nameIdx = 1
  /\ categories = <<>> /\ catIdx = 1
  /\ page_index = 0 /\ all_codes = <<>> /\ all_products = <<>>
  /\ products = <<>> /\ product_matches = <<>>
  /\ requests = <<>>
  /\ result = NoResult

browserVars == <<playwright, browser, page, catPage>>
findVars == <<names, nameIdx, categories>>
fetchVars == <<catIdx, page_index, all_codes, all_products, products,
               product_matches, requests>>

\* run's except clause: log, `return []`, then the finally clause.
SetupRaises == /\ setupFailed' = TRUE /\ pc' = "teardown"

\* setup_browser: sync_playwright().start()
StartPlaywright ==
  /\ pc = "start_playwright"
  /\ \E ok \in BOOLEAN :
       IF ok THEN /\ playwright' = "running" /\ pc' = "launch"
                  /\ UNCHANGED setupFailed
             ELSE /\ SetupRaises /\ UNCHANGED playwright
  /\ UNCHANGED <<browser, page, catPage, findVars, fetchVars, matchKinds, result>>

\* setup_browser: playwright.firefox.launch(headless=True)
LaunchBrowser ==
  /\ pc = "launch"
  /\ \E ok \in BOOLEAN :
       IF ok THEN /\ browser' = "open" /\ pc' = "new_page"
                  /\ UNCHANGED setupFailed
             ELSE /\ SetupRaises /\ UNCHANGED browser
  /\ UNCHANGED <<playwright, page, catPage, findVars, fetchVars, matchKinds, result>>

\* setup_browser: self.browser.new_page()
NewPage ==
  /\ pc = "new_page"
  /\ \E ok \in BOOLEAN :
       IF ok THEN /\ page' = "open" /\ pc' = "extract_names"
                  /\ UNCHANGED setupFailed
             ELSE /\ SetupRaises /\ UNCHANGED page
  /\ UNCHANGED <<playwright, browser, catPage, findVars, fetchVars, matchKinds, result>>

\* scrape_products begins with the first category, or has nothing to do.
BeginCategory(i, cats) ==
  /\ catIdx' = i
  /\ page_index' = 0 /\ all_codes' = <<>> /\ all_products' = <<>>
  /\ pc' = IF i > Len(cats) THEN "teardown" ELSE "request_page"

\* find_categories: extract_category_names; its failure is caught by
\* find_categories, which then returns [].
ExtractCategoryNames ==
  /\ pc = "extract_names"
  /\ \E ok \in BOOLEAN :
       IF ok
         THEN /\ names' = MapSeq(SiteCategories, LAMBDA c : c.name)
              /\ nameIdx' = 1
              /\ pc' = "open_cat_page"
              /\ UNCHANGED <<categories, catIdx, page_index, all_codes, all_products>>
         ELSE /\ categories' = <<>>
              /\ BeginCategory(1, <<>>)
              /\ UNCHANGED <<names, nameIdx>>
  /\ UNCHANGED <<browserVars, setupFailed, products, product_matches,
                 requests, matchKinds, result>>

\* resolve_category_url: page = self.browser.new_page(), outside the try; when
\* it raises, find_categories catches it and returns [].
OpenCategoryPage ==
  /\ pc = "open_cat_page"
  /\ \E ok \in BOOLEAN :
       IF ok
         THEN /\ catPage' = "open" /\ pc' = "resolve"
              /\ UNCHANGED <<categories, catIdx, page_index, all_codes, all_products>>
         ELSE /\ categories' = <<>>
              /\ BeginCategory(1, <<>>)
              /\ UNCHANGED catPage
  /\ UNCHANGED <<playwright, browser, page, setupFailed, names, nameIdx,
                 products, product_matches, requests, matchKinds, result>>

\* resolve_category_url: the try block and its finally (page.close()), then
\* the loop of find_categories moves to the next name.
ResolveCategoryUrl ==
  /\ pc = "resolve"
  /\ catPage' = "closed"
  /\ \E found \in BOOLEAN :
       LET cats == IF found THEN Append(categories, SiteCategories[nameIdx])
                            ELSE categories
       IN  /\ categories' = cats
           /\ nameIdx' = nameIdx + 1
           /\ IF nameIdx + 1 > Len(names)
                THEN BeginCategory(1, cats)
                ELSE /\ pc' = "open_cat_page"
                     /\ UNCHANGED <<catIdx, page_index, all_codes, all_products>>
  /\ UNCHANGED <<playwright, browser, page, setupFailed, names, products,
                 product_matches, requests, matchKinds, result>>

\* One iteration of the loop of fetch_category_products_and_codes; when the
\* loop ends, the rest of the iteration of scrape_products for this category.
RequestPage ==
  LET \* What one GET of the listing API comes to, after the session's retries: a
      \* failure, a JSON body without results.matches, or a JSON body with a page.
      Responses(kinds, index) ==
        {[kind |-> "failed", matches |-> <<>>], [kind |-> "absent", matches |-> <<>>]}
        \cup {[kind |-> "json", matches |-> m] : m \in PagesAt(kinds, index)}
  IN
  LET \* products = data["results"]["matches"], [] when the lookup raises.
      ParseMatches(data) == IF data.hasMatches THEN data.matches ELSE <<>>
  IN
  /\ pc = "request_page"
  /\ \E resp \in Responses(matchKinds, page_index) :
       LET cid   == CategoryId(categories[catIdx].url)
           prods == ParseMatches(GetProducts(resp))
           ex    == ExtractCodes(prods)
       IN  /\ requests' = Append(requests,
                 [cat |-> cid, index |-> page_index, kind |-> resp.kind,
                  matches |-> resp.matches])
           /\ IF LoopBreaks(prods)
                THEN /\ products' = Extend(products, MapSeq(all_codes, ProductUrl))
                     /\ product_matches' = Extend(product_matches, all_products)
                     /\ BeginCategory(catIdx + 1, categories)
                ELSE IF ex.raised
                THEN /\ BeginCategory(catIdx + 1, categories)
                     /\ UNCHANGED <<products, product_matches>>
                ELSE /\ all_codes' = Extend(all_codes, ex.codes)
                     /\ all_products' = Extend(all_products, prods)
                     /\ page_index' = NextPageIndex(page_index)
                     /\ page_index < MaxPages + 1
                     /\ UNCHANGED <<pc, catIdx, products, product_matches>>
  /\ UNCHANGED <<browserVars, setupFailed, findVars, matchKinds, result>>

\* The finally clause of run (teardown_browser), then what run hands back.
Teardown ==
  /\ pc = "teardown"
  /\ pc' = "done"
  /\ IF browser = "unset"
       THEN \* self.browser.close() raises AttributeError out of the finally
            /\ result' = [kind |-> "raised", urls |-> <<>>, meta |-> <<>>]
            /\ UNCHANGED <<playwright, browser, page>>
       ELSE /\ browser' = "closed"
            /\ page' = IF page = "open" THEN "closed" ELSE page
            /\ playwright' = "stopped"
            /\ result' = IF setupFailed
                           THEN [kind |-> "list", urls |-> <<>>, meta |-> <<>>]
                           ELSE [kind |-> "pair", urls |-> products,
                                 meta |-> product_matches]
  /\ UNCHANGED <<catPage, setupFailed, findVars, fetchVars, matchKinds>>

\* ------------------------------------------------- claims on the Crawler
CategoryIds == {CategoryId(SiteCategories[i].url) : i \in 1..Len(SiteCategories)}

\* The requests issued for one category, in the order they were issued.
RequestsOf(c) == SelectSeq(requests, LAMBDA r : r.cat = c)

\* The request got an empty or an absent matches list from the API.
ReturnedNoMatches(r) ==
  r.kind = "absent" \/ (r.kind = "json" /\ r.matches = <<>>)

\* The matches the API served for a category before its first empty page.
Collected(c) ==
  LET \* The requests of a sequence that precede its first one without matches
      \* (an empty page, an absent list, or a failure turned into the fallback).
      BeforeFirstEmpty(s) ==
        LET e == {i \in 1..Len(s) : s[i].matches = <<>>}
            n == IF e = {} THEN Len(s) ELSE (CHOOSE i \in e : \A j \in e : i <= j) - 1
        IN  SubSeq(s, 1, n)
  IN
                Flatten(MapSeq(BeforeFirstEmpty(RequestsOf(c)), LAMBDA r : r.matches))

\* C1: the pages of a category are requested with indexes 0, 1, 2, ... in
\* increasing order, and once a page returned an empty or absent matches list
\* no further page of that category is requested.
C1_PagesInOrderUntilEmpty ==
  \A c \in CategoryIds :
    LET s == RequestsOf(c)
    IN  \A i \in 1..Len(s) :
          /\ s[i].index = i - 1
          /\ ReturnedNoMatches(s[i]) => i = Len(s)

\* A category was paged through two pages and more and ended on an empty or
\* absent matches list.
C1_Witness ==
  /\ pc = "done"
  /\ \E c \in CategoryIds :
       LET s == RequestsOf(c)
       IN  Len(s) >= 3 /\ ReturnedNoMatches(s[Len(s)])

\* C2 as stated: a failed request for page k does not end the pagination of
\* its category; once the category is done, page k+1 was requested too.
C2_FailedPageIsSkipped ==
  pc = "done" =>
    \A c \in CategoryIds :
      LET s == RequestsOf(c)
      IN  \A i \in 1..Len(s) : s[i].kind = "failed" => i < Len(s)

\* C2 as amended: a failed request for page k ends the pagination of its
\* category at k: it is the last request of the category, and the run returns
\* as many products as the pages before the first empty or failed page of
\* each category hold.
C2_FailedPageEndsPagination ==
  /\ \A c \in CategoryIds :
       LET s == RequestsOf(c)
       IN  \A i \in 1..Len(s) : s[i].kind = "failed" => i = Len(s)
  /\ (pc = "done" /\ result.kind = "pair") =>
       /\ Len(result.meta) =
            Len(Flatten(MapSeq(categories, LAMBDA cat : Collected(CategoryId(cat.url)))))
       /\ Len(result.urls) = Len(result.meta)

\* A request failed after a page with matches, and run returned products.
C2_Witness ==
  /\ pc = "done" /\ result.kind = "pair" /\ result.meta # <<>>
  /\ \E c \in CategoryIds :
       LET s == RequestsOf(c)
       IN  Len(s) >= 2 /\ s[Len(s)].kind = "failed"

\* C3: the lists run returns are the concatenation, in category order, then
\* page order, then within-page order, of the matches of the pages before each
\* category's first empty page; a code that occurs again is listed again.
C3_ResultIsConcatenation ==
  (pc = "done" /\ result.kind = "pair") =>
    /\ result.meta =
         Flatten(MapSeq(categories, LAMBDA cat : Collected(CategoryId(cat.url))))
    /\ result.urls =
         Flatten(MapSeq(categories, LAMBDA cat :
           MapSeq(Collected(CategoryId(cat.url)), LAMBDA m : ProductUrl(m.code))))

\* Two categories, one of them with two full pages and then an empty one, and
\* a code that the result lists more than once.
C3_Witness ==
  /\ pc = "done" /\ result.kind = "pair"
  /\ Len(categories) = 2
  /\ \E c \in CategoryIds :
       LET s == RequestsOf(c)
       IN  /\ Len(s) = 3
           /\ Len(s[1].matches) = MaxPageLen /\ Len(s[2].matches) = MaxPageLen
           /\ s[3].kind = "json" /\ s[3].matches = <<>>
  /\ \E i, j \in 1..Len(result.urls) : i < j /\ result.urls[i] = result.urls[j]

\* C4: when browser setup fails, run returns a pair of two empty lists and
\* raises nothing.
C4_SetupFailureReturnsEmptyPair ==
  (pc = "done" /\ setupFailed) =>
    (result.kind = "pair" /\ result.urls = <<>> /\ result.meta = <<>>)

\* C5: on every exit of run, every browser resource that was started has been
\* closed or stopped.
C5_ResourcesReleasedOnExit ==
  pc = "done" =>
    /\ playwright # "running"
    /\ browser # "open"
    /\ page # "open"
    /\ catPage # "open"

\* C21: Crawler.run always terminates: against a listing API that holds
\* finitely many non-empty pages per category, whose requests may fail on some
\* or on all pages, the pagination of every category ends and run is left.
C21_RunTerminates == <>(pc = "done")

\* run was left after a category was paged through to the end of its data and
\* a category met a failing request; and after every request failed.
C21_Witness ==
  /\ pc = "done" /\ Len(categories) = 2
  /\ \/ /\ \E c \in CategoryIds : Len(RequestsOf(c)) = MaxPages + 1
        /\ \E c \in CategoryIds :
             LET s == RequestsOf(c) IN s # <<>> /\ s[Len(s)].kind = "failed"
     \/ /\ requests # <<>>
        /\ \A i \in 1..Len(requests) : requests[i].kind = "failed"

\* C27: the two lists run returns are aligned, whatever the listing API
\* served (pages of maps with a code, matches without a code, matches that are
\* no maps, failing pages): they have the same length and the i-th URL is the
\* catalog URL of the code of the i-th metadata record.
C27_ReturnedListsAligned ==
  (pc = "done" /\ result.kind = "pair") =>
    /\ Len(result.urls) = Len(result.meta)
    /\ \A i \in 1..Len(result.urls) :
         /\ result.meta[i].kind = "map"
         /\ result.urls[i] = ProductUrl(result.meta[i].code)

\* ================================================================= PARSER
\* Python's None, where a string or None is held.
None == "None"

\* `if x:` for a string or None
Truthy(x) == x # None /\ x # ""

\* A dict is a function from its keys; {} is the function of no key.
EmptyDict == [k \in {} |-> None]
Put(d, k, v) == (k :> v) @@ d
MergeKeepsFirst(d, e) == d @@ e
Merge(d, e) == e @@ d

\* str.lower() on the texts the pages hold.
LowerTable ==
  [t \in {"Specs", "Nameplate", "Performance", "Parts", "Accessories",
          "Drawings", "Videos", "Frame", "FRAME", "Enclosure",
          "General Characteristics", "Load Characteristics",
          "Performance Curves", "Efficiency Notes", "Rated Load"} |->
     CASE t = "Specs" -> "specs"
       [] t = "Nameplate" -> "nameplate"
       [] t = "Performance" -> "performance"
       [] t = "Parts" -> "parts"
       [] t = "Accessories" -> "accessories"
       [] t = "Drawings" -> "drawings"
       [] t = "Videos" -> "videos"
       [] t = "Frame" -> "frame"
       [] t = "FRAME" -> "frame"
       [] t = "Enclosure" -> "enclosure"
       [] t = "General Characteristics" -> "general characteristics"
       [] t = "Load Characteristics" -> "load characteristics"
       [] t = "Performance Curves" -> "performance curves"
       [] t = "Efficiency Notes" -> "efficiency notes"
       [] t = "Rated Load" -> "rated load"]
Lower(t) == IF t \in DOMAIN LowerTable THEN LowerTable[t] ELSE t

\* normalize_spaces: ' '.join(text.split()) on the texts the pages hold.
NormalizeSpaces(t) ==
  CASE t = "General  Purpose   Motor" -> "General Purpose Motor"
    [] t = " Severe Duty Motor " -> "Severe Duty Motor"
    [] t = "1.000  EA" -> "1.000 EA"
    [] OTHER -> t

\* What an extractor comes to: a value, or an exception.
Ok(v) == [raised |-> FALSE, value |-> v]
Raised == [raised |-> TRUE, value |-> EmptyDict]

\* parse_label_value_grid on the items of the grid, in document order: an item
\* with a label and a value sets data[label.lower()].
RECURSIVE GridItems(_, _)
GridItems(items, data) ==
  IF items = <<>> THEN data
  ELSE LET it == Head(items)
       IN  GridItems(Tail(items),
             IF it.label # None /\ it.value # None
               THEN Put(data, Lower(it.label), it.value) ELSE data)

parse_label_value_grid(present, items) ==
  IF ~present THEN EmptyDict ELSE GridItems(items, EmptyDict)

parse_specs(soup) == Ok(parse_label_value_grid(soup.hasSpecs, soup.specs))

\* The rows of a parts or accessories table: a row of three cells gives a
\* record, any other row is skipped.
RECURSIVE TableRows(_, _)
TableRows(rows, third) ==
  IF rows = <<>> THEN <<>>
  ELSE LET cols == Head(rows)
           rest == TableRows(Tail(rows), third)
       IN  IF Len(cols) # 3 THEN rest
           ELSE <<Put([part_number |-> NormalizeSpaces(cols[1]),
                       description |-> NormalizeSpaces(cols[2])],
                      third, NormalizeSpaces(cols[3]))>> \o rest

parse_parts(soup) ==
  Ok(IF ~soup.hasParts \/ ~soup.partsTbody THEN <<>>
     ELSE TableRows(soup.parts, "quantity"))

parse_accessories(soup) ==
  Ok(IF ~soup.hasAccessories \/ ~soup.accTbody THEN <<>>
     ELSE TableRows(soup.accessories, "list price"))

parse_drawings(soup) ==
  LET ImgData(items) ==
        MapSeq(SelectSeq(items, LAMBDA it : Truthy(it.number)),
               LAMBDA it : [number |-> it.number, url |-> it.url])
  IN
  LET \* The items of the JSON blocks with a url (CAD descriptors) and with a number
      \* (image descriptors).
      CadData(items) ==
        MapSeq(SelectSeq(items, LAMBDA it : Truthy(it.url)),
               LAMBDA it : [name |-> it.name, value |-> it.value, url |-> it.url])
  IN
  LET DrawingsDict(imgs, cads) == [type |-> "dict", filled |-> TRUE, imgs |-> imgs, cads |-> cads]
  IN
  LET DrawingsEmptyList == [type |-> "list", filled |-> FALSE, imgs |-> <<>>, cads |-> <<>>]
  IN
  LET \* What parse_drawings returns: {} , [] or {"imgs": ..., "cads": ...}.
      DrawingsEmptyDict == [type |-> "dict", filled |-> FALSE, imgs |-> <<>>, cads |-> <<>>]
  IN
  LET d == soup.drawings
      undecodable == {i \in 1..Len(d.blocks) : ~d.blocks[i].valid}
      items == Flatten(MapSeq(d.blocks, LAMBDA b : b.items))
  IN  Ok(IF ~d.pane \/ ~d.cadfiles \/ d.blocks = <<>> THEN DrawingsEmptyDict
         ELSE IF undecodable # {} THEN DrawingsEmptyList
         ELSE DrawingsDict(ImgData(items), CadData(items)))

RECURSIVE LoadRows(_, _, _)
LoadRows(rows, headers, data) ==
  LET \* dict(zip(headers, values))
      ZipDict(hs, vs) ==
        LET n == IF Len(hs) < Len(vs) THEN Len(hs) ELSE Len(vs)
        IN  [h \in {hs[i] : i \in 1..n} |->
               vs[CHOOSE i \in 1..n : hs[i] = h /\ \A j \in 1..n : hs[j] = h => j <= i]]
  IN
  IF rows = <<>> THEN Ok(data)
  ELSE LET row == Head(rows)
       IN  IF row.th = None THEN Raised   \* label_cell is None
           ELSE LoadRows(Tail(rows), headers,
                         Put(data, row.th, ZipDict(headers, row.tds)))

\* parse_load_characteristics: nothing guards a missing table, thead, header
\* cell, tbody or row label.
parse_load_characteristics(pf) ==
  IF ~pf.hasTable \/ ~pf.thead \/ pf.headers = <<>> \/ ~pf.tbody THEN Raised
  ELSE LoadRows(pf.rows, Tail(pf.headers), [metric |-> Head(pf.headers)])

\* parse_performance_curves: nothing guards a missing links container.
parse_performance_curves(pf) == IF ~pf.hasCurves THEN Raised ELSE Ok(pf.curves)

parse_general_characteristics(pf) ==
  Ok(parse_label_value_grid(pf.hasOverview, pf.overview))

PerformanceSection(session, pf) ==
  CASE session = "general characteristics" -> parse_general_characteristics(pf)
    [] session = "load characteristics" -> parse_load_characteristics(pf)
    [] session = "performance curves" -> parse_performance_curves(pf)

\* The loop of parse_performance over the sub-section titles.
RECURSIVE PerformanceSessions(_, _, _)
PerformanceSessions(h3_tags, pf, performance) ==
  LET \* str.replace(" ", "_") on the sub-section titles of the performance tab.
      Underscored(t) ==
        CASE t = "general characteristics" -> "general_characteristics"
          [] t = "load characteristics" -> "load_characteristics"
          [] t = "performance curves" -> "performance_curves"
          [] OTHER -> t
  IN
  LET PerformanceParsers ==
        {"general characteristics", "load characteristics", "performance curves"}
  IN
  IF h3_tags = <<>> THEN Ok(performance)
  ELSE LET session == Head(h3_tags)
       IN  IF session \in PerformanceParsers
             THEN LET r == PerformanceSection(session, pf)
                  IN  IF r.raised THEN Raised
                      ELSE PerformanceSessions(Tail(h3_tags), pf,
                             Put(performance, Underscored(session), r.value))
             ELSE PerformanceSessions(Tail(h3_tags), pf, performance)

parse_performance(soup) ==
  LET \* `if not h3_tags:` the fallback of parse_performance
      FallbackApplies(h3_tags) == h3_tags = <<>>
  IN
  LET pf == soup.performance
      p1 == IF pf.h2 # <<>> THEN [description |-> Head(pf.h2)] ELSE EmptyDict
      p2 == IF pf.em # None THEN Put(p1, "observation", pf.em) ELSE p1
      h3_tags == MapSeq(pf.h3, Lower)
      r == PerformanceSessions(h3_tags, pf, p2)
  IN  IF ~pf.pane THEN Ok(EmptyDict)
      ELSE IF r.raised THEN Raised
      ELSE Ok(IF FallbackApplies(h3_tags)
                THEN Put(r.value, "associated_urls", pf.links) ELSE r.value)

\* The cells of one nameplate row: a th sets the pending key, a td after a key
\* stores the pair, a td without a key goes to the extras when it has text.
RECURSIVE NameplateCells(_, _, _)
NameplateCells(cells, key, acc) ==
  IF cells = <<>> THEN acc
  ELSE LET cell == Head(cells)
       IN  IF cell.tag = "th" THEN NameplateCells(Tail(cells), cell.text, acc)
           ELSE IF Truthy(key)
             THEN NameplateCells(Tail(cells), None,
                    [acc EXCEPT !.nameplate = Put(@, Lower(key), cell.text)])
           ELSE IF cell.text # ""
             THEN NameplateCells(Tail(cells), key,
                    [acc EXCEPT !.extras = Append(@, cell.text)])
           ELSE NameplateCells(Tail(cells), key, acc)

RECURSIVE NameplateRows(_, _)
NameplateRows(rows, acc) ==
  IF rows = <<>> THEN acc
  ELSE LET cells == Head(rows)
       IN  NameplateRows(Tail(rows),
             IF Len(cells) = 1
               THEN [acc EXCEPT !.extras = Append(@, cells[1].text)]
               ELSE NameplateCells(cells, None, acc))

parse_nameplate(soup) ==
  LET acc == NameplateRows(soup.nameplate, [nameplate |-> EmptyDict, extras |-> <<>>])
  IN  Ok(IF ~soup.hasNameplate THEN EmptyDict
         ELSE IF acc.extras # <<>> THEN Put(acc.nameplate, "EXTRAS", acc.extras)
         ELSE acc.nameplate)

\* The rows of the detail table: a row with a th and a td sets info[key.lower()].
RECURSIVE DetailRows(_, _)
DetailRows(rows, info) ==
  IF rows = <<>> THEN info
  ELSE LET row == Head(rows)
       IN  DetailRows(Tail(rows),
             IF row.th # None /\ row.td # None
               THEN Put(info, Lower(row.th), row.td) ELSE info)

\* parse_catalog on self.data: the new self.data, and whether it raised
\* (normalize_spaces(None) when the description is missing).
parse_catalog(data, soup) ==
  LET d1 == Put(data, "product_id", soup.title)
      d2 == Put(d1, "description", NormalizeSpaces(soup.description))
      d3 == Put(d2, "info",
                IF soup.hasDetail THEN DetailRows(soup.detail, EmptyDict) ELSE EmptyDict)
      d4 == Put(d3, "img_src", soup.img)
      d5 == IF soup.pdf # None THEN Put(d4, "pdf_src", soup.pdf) ELSE d4
  IN  IF ~soup.catalog THEN Ok(data)
      ELSE IF soup.description = None THEN [raised |-> TRUE, value |-> d1]
      ELSE Ok(d5)

\* find_sessions: the lower-cased names of the tabs, [] without a c-tab.
find_sessions(soup) == IF ~soup.hasTabs THEN <<>> ELSE MapSeq(soup.tabs, Lower)

\* self.parsers
SectionNames == {"specs", "nameplate", "performance", "parts", "accessories", "drawings"}

Extract(session_name, soup) ==
  CASE session_name = "specs" -> parse_specs(soup)
    [] session_name = "nameplate" -> parse_nameplate(soup)
    [] session_name = "performance" -> parse_performance(soup)
    [] session_name = "parts" -> parse_parts(soup)
    [] session_name = "accessories" -> parse_accessories(soup)
    [] session_name = "drawings" -> parse_drawings(soup)

\* self.data[session_name] = ...
StoreSectionAppends(data, session_name, value) ==
  IF session_name \in {"parts", "accessories"} /\ session_name \in DOMAIN data
    THEN Put(data, session_name, data[session_name] \o value)
    ELSE Put(data, session_name, value)
StoreSection(data, session_name, value) == Put(data, session_name, value)

\* The loop of run over the session names.
RECURSIVE RunSessions(_, _, _)
RunSessions(session_names, soup, data) ==
  IF session_names = <<>> THEN Ok(data)
  ELSE LET session_name == Head(session_names)
       IN  IF session_name \in SectionNames
             THEN LET r == Extract(session_name, soup)
                  IN  IF r.raised THEN [raised |-> TRUE, value |-> data]
                      ELSE RunSessions(Tail(session_names), soup,
                             StoreSection(data, session_name, r.value))
             ELSE RunSessions(Tail(session_names), soup, data)

\* Parser.run on a parser whose self.data is `data`: whether it raised, what
\* it returned, and self.data afterwards.
ParserRun(data, soup) ==
  LET c == parse_catalog(data, soup)
      r == RunSessions(find_sessions(soup), soup, c.value)
  IN  IF soup.fetch = "network_error"
        THEN [raised |-> FALSE, ret |-> EmptyDict, data |-> data]
      ELSE IF soup.fetch = "http_error"   \* response.raise_for_status()
        THEN [raised |-> TRUE, ret |-> EmptyDict, data |-> data]
      ELSE IF c.raised THEN [raised |-> TRUE, ret |-> EmptyDict, data |-> c.value]
      ELSE IF r.raised THEN [raised |-> TRUE, ret |-> EmptyDict, data |-> r.value]
      ELSE [raised |-> FALSE, ret |-> r.value, data |-> r.value]

\* ------------------------------------------------ the pages of the catalog
\* A detail page with every header element, every tab and every section.
FullSoup ==
  [fetch |-> "ok", catalog |-> TRUE,
   title |-> "M2338T", description |-> "General  Purpose   Motor",
   hasDetail |-> TRUE,
   detail |-> << [th |-> "Frame", td |-> "215T"], [th |-> "Enclosure", td |-> None] >>,
   img |-> "/api/images/451", pdf |-> "/api/products/M2338T/infopacket",
   hasTabs |-> TRUE,
   tabs |-> <<"Specs", "Nameplate", "Performance", "Parts", "Accessories", "Drawings">>,
   hasSpecs |-> TRUE,
   specs |-> << [label |-> "Frame", value |-> "215"],
                [label |-> "FRAME", value |-> "215T"],
                [label |-> "Enclosure", value |-> None] >>,
   hasNameplate |-> TRUE,
   nameplate |-> << << [tag |-> "th", text |-> "Frame"], [tag |-> "td", text |-> "215T"] >>,
                    << [tag |-> "td", text |-> "NEMA NOM EFF 91.7"] >> >>,
   performance |->
     [pane |-> TRUE, h2 |-> <<"Performance at 460 V">>, em |-> "Typical values",
      h3 |-> <<"General Characteristics", "Load Characteristics", "Performance Curves">>,
      hasOverview |-> TRUE,
      overview |-> << [label |-> "Frame", value |-> "215T"] >>,
      hasTable |-> TRUE, thead |-> TRUE, headers |-> <<"Rated Load", "50", "100">>,
      tbody |-> TRUE, rows |-> << [th |-> "Amps", tds |-> <<"7.1", "12.9">>] >>,
      hasCurves |-> TRUE, curves |-> <<"/curves/M2338T.pdf">>,
      links |-> <<"/curves/M2338T.pdf">>],
   hasParts |-> TRUE, partsTbody |-> TRUE,
   parts |-> << <<"SA011385", "Bearing", "1.000  EA">>,
                <<"SA011385", "Bearing", "2.500 EA">>,
                <<"HW1001A25", "Washer">> >>,
   hasAccessories |-> TRUE, accTbody |-> TRUE,
   accessories |-> << <<"36EP3100A05", " Severe Duty Motor ", "114.00">> >>,
   drawings |->
     [pane |-> TRUE, cadfiles |-> TRUE,
      blocks |-> << [valid |-> TRUE,
                     items |-> << [url |-> "/cad/M2338T.dwg", number |-> None,
                                   name |-> "2D AutoCAD DWG", value |-> "M2338T.DWG"],
                                  [url |-> None, number |-> "LB1119",
                                   name |-> None, value |-> None] >>] >>]]

\* A detail page of another product: no information packet, two tabs only.
LeanSoup ==
  [FullSoup EXCEPT !.title = "GPL3310", !.description = " Severe Duty Motor ",
                   !.img = "/api/images/452", !.pdf = None,
                   !.tabs = <<"Specs", "Parts">>,
                   !.specs = << [label |-> "Enclosure", value |-> "TEFC"] >>,
                   !.parts = << <<"HW1001A25", "Washer", "1.000 EA">> >>]

\* A page, and the same page with one element changed or missing.
Variants(b) ==
  {b}
  \cup {[b EXCEPT !.fetch = f] : f \in {"network_error", "http_error"}}
  \cup {[b EXCEPT !.catalog = FALSE], [b EXCEPT !.title = None], [b EXCEPT !.title = ""],
        [b EXCEPT !.description = None], [b EXCEPT !.hasDetail = FALSE],
        [b EXCEPT !.img = None], [b EXCEPT !.pdf = None]}
  \cup {[b EXCEPT !.hasTabs = FALSE],
        [b EXCEPT !.tabs = <<"Specs", "Videos", "Parts">>],
        [b EXCEPT !.tabs = <<"Performance", "Specs", "Parts", "Drawings">>]}
  \cup {[b EXCEPT !.hasSpecs = FALSE], [b EXCEPT !.hasNameplate = FALSE],
        [b EXCEPT !.hasParts = FALSE], [b EXCEPT !.partsTbody = FALSE],
        [b EXCEPT !.hasAccessories = FALSE]}
  \cup {[b EXCEPT !.nameplate =
           << << [tag |-> "th", text |-> "Frame"], [tag |-> "th", text |-> "Enclosure"],
                 [tag |-> "td", text |-> "TEFC"], [tag |-> "th", text |-> "FRAME"] >> >>]}
  \cup {[b EXCEPT !.performance.pane = FALSE],
        [b EXCEPT !.performance.h3 = <<>>],
        [b EXCEPT !.performance.h3 = <<"Efficiency Notes">>],
        [b EXCEPT !.performance.hasOverview = FALSE],
        [b EXCEPT !.performance.hasTable = FALSE],
        [b EXCEPT !.performance.thead = FALSE],
        [b EXCEPT !.performance.hasCurves = FALSE],
        [b EXCEPT !.performance.h2 = <<>>, !.performance.em = None],
        [b EXCEPT !.performance.curves = <<"/curves/M2338T.pdf", "/curves/M2338T-60.pdf">>]}
  \cup {[b EXCEPT !.drawings.pane = FALSE],
        [b EXCEPT !.drawings.cadfiles = FALSE],
        [b EXCEPT !.drawings.blocks = <<>>],
        [b EXCEPT !.drawings.blocks = Append(@, [valid |-> FALSE, items |-> <<>>])]}

\* The pages the catalog serves.
Soups ==
  Variants(FullSoup)
  \cup {LeanSoup, [LeanSoup EXCEPT !.catalog = FALSE], [LeanSoup EXCEPT !.hasTabs = FALSE]}

\* ------------------------------------------------------ the Parser at work
\* Calls of Parser.run in one run of the model.
MaxRuns == 2

VARIABLES
  data,     \* self.data of the Parser instance in use
  parser,   \* the number of that instance
  runs      \* history: the calls of Parser.run, with what each came to

parserVars == <<data, parser, runs>>

InitParser == data = EmptyDict /\ parser = 1 /\ runs = <<>>

\* Parser.__init__: a new instance, as main creates one per product. (Only
\* after the instance in use has run, so that instances are not piled up.)
NewParser ==
  /\ runs # <<>> /\ runs[Len(runs)].parser = parser
  /\ Len(runs) < MaxRuns
  /\ parser' = parser + 1
  /\ data' = EmptyDict
  /\ UNCHANGED runs

\* Parser.run(url) on the page that url serves.
Run ==
  /\ Len(runs) < MaxRuns
  /\ \E soup \in Soups :
       LET r == ParserRun(data, soup)
       IN  /\ data' = r.data
           /\ runs' = Append(runs, [parser |-> parser, soup |-> soup,
                                    raised |-> r.raised, ret |-> r.ret])
  /\ UNCHANGED parser

\* ------------------------------------------------- claims on the Parser
\* The section tabs a page lists that have an extractor.
ListedSections(soup) ==
  {Lower(soup.tabs[i]) : i \in 1..Len(soup.tabs)} \cap SectionNames

\* C6: run returns an empty record and raises nothing for every fetch-level
\* error of the page: a network failure or timeout, and a non-2xx status.
C6_FetchErrorGivesEmptyRecord ==
  \A i \in 1..Len(runs) :
    runs[i].soup.fetch # "ok" => (~runs[i].raised /\ runs[i].ret = EmptyDict)

\* C7: a section extractor that does not find its markup returns an empty
\* result and does not raise: run returns, and every listed section that has
\* an extractor is in the record.
C7_MissingMarkupIsContained ==
  LET \* A listed section of the page lacks the markup its extractor expects.
      LacksMarkup(soup) ==
        \/ "specs" \in ListedSections(soup) /\ ~soup.hasSpecs
        \/ "parts" \in ListedSections(soup) /\ (~soup.hasParts \/ ~soup.partsTbody)
        \/ "drawings" \in ListedSections(soup)
             /\ (~soup.drawings.pane \/ ~soup.drawings.cadfiles)
        \/ "performance" \in ListedSections(soup)
             /\ \/ ~soup.performance.pane
                \/ ~soup.performance.hasOverview
                \/ ~soup.performance.hasTable \/ ~soup.performance.thead
                \/ ~soup.performance.hasCurves
  IN
  LET \* The page was fetched and its header parsed: run reached the section tabs.
      ReachesTabs(soup) ==
        soup.fetch = "ok" /\ ~(soup.catalog /\ soup.description = None) /\ soup.hasTabs
  IN
  \A i \in 1..Len(runs) :
    (ReachesTabs(runs[i].soup) /\ LacksMarkup(runs[i].soup)) =>
      /\ ~runs[i].raised
      /\ ListedSections(runs[i].soup) \subseteq DOMAIN runs[i].ret

\* C9: two runs on the same page content return identical records (or both
\* raise): two runs in a row of one instance, and the first runs of two
\* fresh instances.
C9_SamePageSameRecord ==
  \A i, j \in 1..Len(runs) :
    (/\ i < j
     /\ runs[i].soup = runs[j].soup
     /\ \/ (j = i + 1 /\ runs[i].parser = runs[j].parser)
        \/ (/\ runs[i].parser # runs[j].parser
            /\ \A k \in 1..Len(runs) :
                 runs[k].parser \in {runs[i].parser, runs[j].parser} => k \in {i, j}))
    => (runs[i].raised = runs[j].raised /\ runs[i].ret = runs[j].ret)

\* One instance ran twice in a row on a page with sections and returned a
\* record with parts both times.
C9_Witness ==
  \E i \in 1..Len(runs) - 1 :
    /\ runs[i].parser = runs[i + 1].parser
    /\ runs[i].soup = runs[i + 1].soup
    /\ ~runs[i + 1].raised
    /\ "parts" \in DOMAIN runs[i + 1].ret /\ runs[i + 1].ret["parts"] # <<>>

\* C10: the record run returns holds only what the page of this call holds:
\* product_id is this page's title, pdf_src is there only if the page has an
\* information packet, a section only if the page lists its tab; also after
\* earlier runs of the same instance on other pages.
C10_RecordHoldsOnlyThisPage ==
  \A i \in 1..Len(runs) :
    ~runs[i].raised =>
      LET ret == runs[i].ret  soup == runs[i].soup
      IN  /\ "product_id" \in DOMAIN ret =>
               (soup.fetch = "ok" /\ soup.catalog /\ ret["product_id"] = soup.title)
          /\ "pdf_src" \in DOMAIN ret =>
               (soup.fetch = "ok" /\ soup.catalog /\ ret["pdf_src"] = soup.pdf)
          /\ \A sec \in SectionNames :
               sec \in DOMAIN ret =>
                 (soup.fetch = "ok" /\ soup.hasTabs /\ sec \in ListedSections(soup))

\* C11: in every record run returns, a section key is present only if its tab
\* was listed, its extractor is registered and the extractor returned at least
\* one field; a tab without a registered extractor adds no key and raises
\* nothing.
C11_SectionKeyOnlyWithFields ==
  LET \* A section value without a field: {} or [].
      SectionIsEmpty(sec, value) ==
        IF sec = "drawings" THEN ~value.filled ELSE DOMAIN value = {}
  IN
  \A i \in 1..Len(runs) :
    ~runs[i].raised =>
      LET ret == runs[i].ret  soup == runs[i].soup
      IN  /\ \A sec \in SectionNames \cap DOMAIN ret :
               sec \in ListedSections(soup) /\ ~SectionIsEmpty(sec, ret[sec])
          /\ DOMAIN ret \subseteq
               SectionNames \cup {"product_id", "description", "info", "img_src", "pdf_src"}

\* C24: when a header element of the page is missing (title, description,
\* detail table, main image, information packet link), parse_catalog omits
\* its field from the record, stores the fields of the other header elements,
\* and run goes on to the section tabs and raises nothing.
C24_MissingHeaderElementIsOmitted ==
  LET \* The page is the full page but for its header elements.
      HeaderOnly(soup) ==
        [soup EXCEPT !.title = FullSoup.title, !.description = FullSoup.description,
                     !.hasDetail = TRUE, !.img = FullSoup.img, !.pdf = FullSoup.pdf]
          = FullSoup
  IN
  \A i \in 1..Len(runs) :
    LET soup == runs[i].soup  ret == runs[i].ret
    IN  (HeaderOnly(soup) /\ \A j \in 1..(i - 1) : runs[j].parser # runs[i].parser) =>
          /\ ~runs[i].raised
          /\ "product_id" \in DOMAIN ret <=> soup.title # None
          /\ "description" \in DOMAIN ret <=> soup.description # None
          /\ "info" \in DOMAIN ret <=> soup.hasDetail
          /\ "img_src" \in DOMAIN ret <=> soup.img # None
          /\ "pdf_src" \in DOMAIN ret <=> soup.pdf # None
          /\ ListedSections(soup) \subseteq DOMAIN ret

\* C25: whenever the performance tab holds none of the three known
\* sub-section titles (general characteristics, load characteristics,
\* performance curves), also when it holds only other titles, the record's
\* performance section holds every link of the tab under associated_urls.
C25_FallbackWithoutKnownHeading ==
  \A i \in 1..Len(runs) :
    LET soup == runs[i].soup  ret == runs[i].ret
        Known == {"general characteristics", "load characteristics",
                  "performance curves"}
        h3_tags == MapSeq(soup.performance.h3, Lower)
    IN  (/\ ~runs[i].raised
         /\ \A j \in 1..(i - 1) : runs[j].parser # runs[i].parser
         /\ soup.fetch = "ok" /\ soup.hasTabs
         /\ "performance" \in ListedSections(soup) /\ soup.performance.pane
         /\ \A k \in 1..Len(h3_tags) : h3_tags[k] \notin Known) =>
          /\ "performance" \in DOMAIN ret
          /\ "associated_urls" \in DOMAIN ret["performance"]
          /\ ret["performance"]["associated_urls"] = soup.performance.links

\* C26: of every row of the nameplate table, a single cell's text is in
\* EXTRAS, a header cell followed by a value cell is a key of the map (lower
\* case) holding a value of such a pair, and the text of a header cell that no
\* value cell follows (another header follows, or the row ends) is in EXTRAS.
C26_NameplateLosesNoHeader ==
  \A i \in 1..Len(runs) :
    LET soup == runs[i].soup  ret == runs[i].ret
        nameplate == IF "nameplate" \in DOMAIN ret THEN ret["nameplate"] ELSE EmptyDict
        extras == IF "EXTRAS" \in DOMAIN nameplate
                    THEN {nameplate["EXTRAS"][k] : k \in 1..Len(nameplate["EXTRAS"])}
                    ELSE {}
    IN  (/\ ~runs[i].raised
         /\ \A j \in 1..(i - 1) : runs[j].parser # runs[i].parser
         /\ soup.fetch = "ok" /\ soup.hasTabs
         /\ "nameplate" \in ListedSections(soup) /\ soup.hasNameplate) =>
          \A r \in 1..Len(soup.nameplate) :
            LET cells == soup.nameplate[r]
            IN  IF Len(cells) = 1 THEN cells[1].text \in extras
                ELSE \A k \in 1..Len(cells) :
                       cells[k].tag = "th" =>
                         IF k < Len(cells) /\ cells[k + 1].tag = "td"
                           THEN Lower(cells[k].text) \in DOMAIN nameplate
                           ELSE cells[k].text \in extras

\* ============================================================= DOWNLOADER
\* sanitize_filename: re.sub(r'[<>:"/\\|?*]', '_', filename) on the names the
\* pages hold.
sanitize_filename(filename) ==
  CASE filename = "CD/1803R" -> "CD_1803R"
    [] filename = "3D STEP: AP214" -> "3D STEP_ AP214"
    [] OTHER -> filename

build_image_url(image_path) ==
  <<"https://www.baldor.com", image_path, "?bc=white&as=1&w=1920&h=0">>
build_product_file_url(path) == <<"https://www.baldor.com", path>>
build_drawing_img_url(product_code, drawing_number) ==
  <<"https://www.baldor.com/api/products/", product_code, "/drawings/", drawing_number>>
build_cad_url(value, original_url) ==
  LET \* urllib.parse.quote(original_url, safe="")
      Quote(url) ==
        CASE url = "/cad/M2338T.dwg" -> "%2Fcad%2FM2338T.dwg"
          [] url = "/cad/M2338T-C.dwg" -> "%2Fcad%2FM2338T-C.dwg"
          [] OTHER -> url
  IN
  <<"https://www.baldor.com/api/products/download/?value=", value, "&url=", Quote(original_url)>>

\* unwrap: the only element of a list of one, the list otherwise.
unwrapKeepsList(l) == [bare |-> FALSE, items |-> l]
unwrap(l) == [bare |-> Len(l) = 1, items |-> l]

\* A file name: f"{stem}_{n}.{ext}", or f"{stem}.{ext}" when n = -1.
FileName(stem, n, ext) == [stem |-> stem, n |-> n, ext |-> ext]

\* f"{self.path}/{file}" and f"{self.relative_path}/{file}"
AssetPath(root, product_id, file) ==
  [root |-> root, dir |-> sanitize_filename(product_id), file |-> file]

\* One call of download_file: it writes the destination unless the request
\* failed; either way it returns None.
Download(url, destination, failed) ==
  [url |-> url, destination |-> destination, ok |-> destination.file \notin failed]

\* The pair (calls of download_file, relative paths returned) of one asset.
OneAsset(json, url, file, failed) ==
  [calls |-> <<Download(url, AssetPath("output/assets", json["product_id"], file), failed)>>,
   paths |-> <<AssetPath("assets", json["product_id"], file)>>]
NoAsset == [calls |-> <<>>, paths |-> <<>>]

download_main_image(json, failed) ==
  IF "img_src" \in DOMAIN json /\ Truthy(json["img_src"])
    THEN OneAsset(json, build_image_url(json["img_src"]), FileName("img", -1, "jpg"), failed)
    ELSE NoAsset

download_product_manual(json, failed) ==
  IF "pdf_src" \in DOMAIN json /\ Truthy(json["pdf_src"])
    THEN OneAsset(json, build_product_file_url(json["pdf_src"]),
                  FileName("manual", -1, "pdf"), failed)
    ELSE NoAsset

\* associated_urls of download_performance after
\* associated_urls.extend(performance_curves_src)
AssociatedUrls(performance_dict) ==
  (IF "associated_urls" \in DOMAIN performance_dict
     THEN performance_dict["associated_urls"] ELSE <<>>)
  \o (IF "performance_curves" \in DOMAIN performance_dict
        THEN performance_dict["performance_curves"] ELSE <<>>)

\* `if not performance_dict`
HasPerformance(json) ==
  "performance" \in DOMAIN json /\ DOMAIN json["performance"] # {}

download_performance(json, failed) ==
  IF ~HasPerformance(json) THEN NoAsset
  ELSE LET urls == AssociatedUrls(json["performance"])
       IN  [calls |-> [i \in 1..Len(urls) |->
                         Download(urls[i],
                                  AssetPath("output/assets", json["product_id"],
                                            FileName("performance_curve", i - 1, "pdf")),
                                  failed)],
            paths |-> [i \in 1..Len(urls) |->
                         AssetPath("assets", json["product_id"],
                                   FileName("performance_curve", i - 1, "pdf"))]]

\* The record after download_performance: extend works on the list the record
\* holds under performance.associated_urls, when it holds one.
AfterPerformance(json) ==
  IF HasPerformance(json) /\ "associated_urls" \in DOMAIN json["performance"]
    THEN Put(json, "performance",
             Put(json["performance"], "associated_urls",
                 AssociatedUrls(json["performance"])))
    ELSE json

\* The name of the file of a CAD descriptor.
CadFile(cad_dict) ==
  LET \* "_".join(cad_dict["name"].split(" "))
      JoinUnderscore(name) ==
        CASE name = "2D AutoCAD DWG" -> "2D_AutoCAD_DWG"
          [] name = "3D STEP: AP214" -> "3D_STEP:_AP214"
          [] OTHER -> name
  IN
  LET \* cad_dict["value"].split(".")[-1]
      FileType(value) ==
        CASE value = "M2338T.DWG" -> "DWG"
          [] value = "M2338T-C.DWG" -> "DWG"
          [] value = "M2338T.STP" -> "STP"
          [] OTHER -> value
  IN
  FileName(sanitize_filename(JoinUnderscore(cad_dict.name)), -1, FileType(cad_dict.value))

\* download_drawings raises when the record has no drawings dict to call .get
\* on (no key, or the [] of an undecodable block) and when a CAD descriptor
\* has no value or no name to split.
BadCads(cad_list) ==
  {i \in 1..Len(cad_list) : cad_list[i].value = None \/ cad_list[i].name = None}

DrawingsRaises(json) ==
  \/ "drawings" \notin DOMAIN json
  \/ json["drawings"].type = "list"
  \/ BadCads(json["drawings"].cads) # {}

\* The calls of download_file that download_drawings makes before it raises.
CallsBeforeRaise(json, calls) ==
  IF "drawings" \in DOMAIN json /\ json["drawings"].type = "dict"
    THEN LET bad == BadCads(json["drawings"].cads)
             first == CHOOSE i \in bad : \A j \in bad : i <= j
         IN  SubSeq(calls, 1, Len(json["drawings"].imgs) + first - 1)
    ELSE <<>>

download_drawings(json, failed) ==
  LET img_list == json["drawings"].imgs
      cad_list == json["drawings"].cads
  IN  [calls |->
         [i \in 1..Len(img_list) |->
            Download(build_drawing_img_url(json["product_id"], img_list[i].number),
                     AssetPath("output/assets", json["product_id"],
                               FileName("render", i - 1, "pdf")), failed)]
         \o [i \in 1..Len(cad_list) |->
            Download(build_cad_url(cad_list[i].value, cad_list[i].url),
                     AssetPath("output/assets", json["product_id"], CadFile(cad_list[i])),
                     failed)],
       renders |-> [i \in 1..Len(img_list) |->
                      AssetPath("assets", json["product_id"], FileName("render", i - 1, "pdf"))],
       cads |-> [i \in 1..Len(cad_list) |->
                   AssetPath("assets", json["product_id"], CadFile(cad_list[i]))]]

\* Downloader.run(json) when the downloads of the files in `failed` fail:
\* whether it raised, the manifest, the calls of download_file made before it
\* returned or raised, and the caller's record afterwards.
DownloaderRun(json, failed) ==
  LET image == download_main_image(json, failed)
      manual == download_product_manual(json, failed)
      performance == download_performance(json, failed)
      drawings == download_drawings(json, failed)
      before == image.calls \o manual.calls \o performance.calls
  IN  IF "product_id" \notin DOMAIN json \/ json["product_id"] = None
        THEN [raised |-> TRUE, assets |-> EmptyDict, calls |-> <<>>, json |-> json]
      ELSE IF DrawingsRaises(json)
        THEN [raised |-> TRUE, assets |-> EmptyDict,
              calls |-> before \o CallsBeforeRaise(json, drawings.calls),
              json |-> AfterPerformance(json)]
      ELSE [raised |-> FALSE,
            assets |-> [image |-> unwrap(image.paths),
                        manual |-> unwrap(manual.paths),
                        performance |-> unwrap(performance.paths),
                        renders |-> unwrap(drawings.renders),
                        cads |-> unwrap(drawings.cads)],
            calls |-> before \o drawings.calls,
            json |-> AfterPerformance(json)]

\* The downloads that fail in one run of the Downloader: none, the image, the
\* manual and the first curve, the first render and the CAD file.
FailureSets ==
  { {},
    {FileName("img", -1, "jpg")},
    {FileName("manual", -1, "pdf"), FileName("performance_curve", 0, "pdf")},
    {FileName("render", 0, "pdf"), FileName("2D_AutoCAD_DWG", -1, "DWG")} }

\* ---------------------------------------------------- the Downloader at work
\* Calls of Downloader.run in one run of the model.
MaxDownloads == 2

VARIABLES
  manifests   \* history: the calls of Downloader.run, with what each came to

downloaderVars == <<manifests>>

InitDownloader == manifests = <<>>

\* Downloader.run(json) of a Downloader, as main creates one per product.
RunDownloader ==
  LET \* The records that fresh Parsers return for them.
      RawRecords ==
        LET \* Detail pages of products whose identifiers differ from one another.
            DownloadPages ==
              {FullSoup,
               [FullSoup EXCEPT !.title = "CD/1803R"],
               [FullSoup EXCEPT !.title = "CD_1803R"],
               [FullSoup EXCEPT !.title = "GPL3310", !.pdf = None, !.performance.pane = FALSE],
               [FullSoup EXCEPT !.performance.curves = <<"/curves/M2338T.pdf", "/curves/M2338T-60.pdf">>],
               [FullSoup EXCEPT !.tabs = <<"Specs", "Videos", "Parts">>],
               \* two CAD files of the same kind, two drawings
               [FullSoup EXCEPT !.drawings.blocks =
                  << [valid |-> TRUE,
                      items |-> << [url |-> "/cad/M2338T.dwg", number |-> None,
                                    name |-> "2D AutoCAD DWG", value |-> "M2338T.DWG"],
                                   [url |-> "/cad/M2338T-C.dwg", number |-> None,
                                    name |-> "2D AutoCAD DWG", value |-> "M2338T-C.DWG"],
                                   [url |-> None, number |-> "LB1119",
                                    name |-> None, value |-> None],
                                   [url |-> None, number |-> "LB1120",
                                    name |-> None, value |-> None] >>] >>]}
        IN
                    {ParserRun(EmptyDict, soup).ret : soup \in DownloadPages}
  IN
  /\ Len(manifests) < MaxDownloads
  /\ \E json \in RawRecords, failed \in FailureSets :
       LET r == DownloaderRun(json, failed)
       IN  manifests' = Append(manifests,
                               [json |-> json, raised |-> r.raised, assets |-> r.assets,
                                calls |-> r.calls, after |-> r.json])

\* C28: within one Downloader.run no two calls of download_file write to the
\* same destination, and no path occurs twice in the manifest.
C28_DestinationsDistinct ==
  \A m \in 1..Len(manifests) :
    LET writes == manifests[m].calls
        assets == manifests[m].assets
        paths == assets.image.items \o assets.manual.items \o assets.performance.items
                   \o assets.renders.items \o assets.cads.items
    IN  /\ \A i, j \in 1..Len(writes) :
             i # j => writes[i].destination # writes[j].destination
        /\ ~manifests[m].raised =>
             \A i, j \in 1..Len(paths) : i # j => paths[i] # paths[j]

\* ============================================================= NORMALIZER
\* A JSON value: None, a string, a formatted string (its pieces; "" has none),
\* a list, a dict.
JNone == [t |-> "none"]
JStr(x) == IF x = None THEN JNone ELSE [t |-> "str", s |-> x]
JText(pieces) == [t |-> "text", pieces |-> pieces]
JList(items) == [t |-> "list", items |-> items]
JDict(d) == [t |-> "dict", d |-> d]
JStrDict(d) == JDict([k \in DOMAIN d |-> JStr(d[k])])
JStrList(l) == JList([i \in 1..Len(l) |-> JStr(l[i])])

\* `cleaned_value not in [None, "", [], {}]`
IsEmpty(v) ==
  \/ v.t = "none"
  \/ v.t = "str" /\ v.s = ""
  \/ v.t = "text" /\ v.pieces = <<>>
  \/ v.t = "list" /\ v.items = <<>>
  \/ v.t = "dict" /\ DOMAIN v.d = {}

\* Cleaning of the keys of a dict only, without descent.
RemoveEmptyAtTop(obj) ==
  IF obj.t = "dict"
    THEN JDict([k \in {x \in DOMAIN obj.d : ~IsEmpty(obj.d[x])} |-> obj.d[k]])
    ELSE obj

RECURSIVE remove_empty_fields(_)
remove_empty_fields(obj) ==
  IF obj.t = "dict"
    THEN LET cleaned == [k \in DOMAIN obj.d |-> remove_empty_fields(obj.d[k])]
         IN  JDict([k \in {x \in DOMAIN cleaned : ~IsEmpty(cleaned[x])} |-> cleaned[k]])
  ELSE IF obj.t = "list"
    THEN LET cleaned == [i \in 1..Len(obj.items) |-> remove_empty_fields(obj.items[i])]
         IN  JList(SelectSeq(cleaned, LAMBDA x : ~IsEmpty(x)))
  ELSE obj

\* float(qty_raw.split()[0]) in thousandths; 0 on ValueError and IndexError.
QtyValue(qty_raw) ==
  CASE qty_raw = "1.000 EA" -> 1000
    [] qty_raw = "2.500 EA" -> 2500
    [] qty_raw = "2.000 EA" -> 2000
    [] OTHER -> 0

\* The keys of grouped, in the order of their first insertion.
RECURSIVE FirstOccurrences(_, _)
FirstOccurrences(bom, seen) ==
  IF bom = <<>> THEN <<>>
  ELSE IF Head(bom).part_number \in seen THEN FirstOccurrences(Tail(bom), seen)
  ELSE <<Head(bom).part_number>>
       \o FirstOccurrences(Tail(bom), seen \cup {Head(bom).part_number})

RECURSIVE SumQty(_, _)
SumQty(bom, part_number) ==
  IF bom = <<>> THEN 0
  ELSE (IF Head(bom).part_number = part_number THEN QtyValue(Head(bom).quantity) ELSE 0)
       + SumQty(Tail(bom), part_number)

FirstDescription(bom, part_number) ==
  LET idx == {i \in 1..Len(bom) : bom[i].part_number = part_number}
  IN  bom[CHOOSE i \in idx : \A j \in idx : i <= j].description

\* grouped[part_number]["description"] = description, for every line
LastDescription(bom, part_number) ==
  LET idx == {i \in 1..Len(bom) : bom[i].part_number = part_number}
  IN  bom[CHOOSE i \in idx : \A j \in idx : j <= i].description

deduplicate_bom(bom) ==
  LET \* f"{quantity:.3f} EA"
      FormatQty(thousandths) == [thousandths |-> thousandths, suffix |-> " EA"]
  IN
  LET keys == FirstOccurrences(bom, {})
  IN  [i \in 1..Len(keys) |->
         [part_number |-> keys[i],
          description |-> LastDescription(bom, keys[i]),
          quantity |-> FormatQty(SumQty(bom, keys[i]))]]

\* get_attribute: the first text of the first attribute of that name with values.
get_attribute(attributes, attr_name) ==
  LET idx == {i \in 1..Len(attributes) :
                attributes[i].name = attr_name /\ attributes[i].values # <<>>}
  IN  IF idx = {} THEN ""
      ELSE attributes[CHOOSE i \in idx : \A j \in idx : i <= j].values[1]

extract_core_metadata(product) ==
  LET \* f"{float(amount):.2f} {currency}", "" on TypeError and ValueError.
      PriceUsd(listPrice) ==
        IF listPrice.present /\ listPrice.parsable
          THEN <<[cents |-> listPrice.cents, currency |-> listPrice.currency]>>
          ELSE <<>>
  IN
  LET brand == get_attribute(product.attributes, "brand")
      category == IF product.categories # <<>> THEN product.categories[1] ELSE ""
      name_parts == SelectSeq(<<brand, category, product.code>>, LAMBDA part : part # "")
  IN  [name |-> IF name_parts # <<>> THEN name_parts ELSE <<"Unnamed Product">>,
       brand |-> brand,
       category |-> category,
       price_usd |-> PriceUsd(product.listPrice),
       status |-> IF product.isDiscontinued THEN "discontinued" ELSE "active"]

\* dict.pop(key, None) / del dict[key]
Without(d, keys) == [k \in DOMAIN d \ keys |-> d[k]]

\* `if d.get(key):` for a key that holds a list or a dict
HasItems(d, key) ==
  key \in DOMAIN d /\ DOMAIN d[key] # {}

\* clean_json["performance"] after the two del statements.
KeptPerformance(performance) == performance
PrunedPerformance(performance) ==
  Without(performance,
          {k \in {"performance_curves", "associated_urls"} : HasItems(performance, k)})

\* The JSON value of a field of the record.
PerformanceJson(k, v) ==
  CASE k \in {"description", "observation"} -> JStr(v)
    [] k = "general_characteristics" -> JStrDict(v)
    [] k = "load_characteristics" ->
         JDict([r \in DOMAIN v |-> IF r = "metric" THEN JStr(v[r]) ELSE JStrDict(v[r])])
    [] k \in {"performance_curves", "associated_urls"} -> JStrList(v)

AssetJson(a) ==
  IF a.bare THEN JText(<<a.items[1]>>)
  ELSE JList([i \in 1..Len(a.items) |-> JText(<<a.items[i]>>)])

ToJson(key, v) ==
  CASE key \in {"product_id", "description", "brand", "category", "status"} -> JStr(v)
    [] key \in {"name", "price_usd"} -> JText(v)
    [] key \in {"info", "specs"} -> JStrDict(v)
    [] key = "nameplate" ->
         JDict([k \in DOMAIN v |-> IF k = "EXTRAS" THEN JStrList(v[k]) ELSE JStr(v[k])])
    [] key = "bom" ->
         JList([i \in 1..Len(v) |->
                  JDict([part_number |-> JStr(v[i].part_number),
                         description |-> JStr(v[i].description),
                         quantity |-> JText(<<v[i].quantity>>)])])
    [] key \in {"parts", "accessories"} -> JList([i \in 1..Len(v) |-> JStrDict(v[i])])
    [] key = "assets" -> JDict([k \in DOMAIN v |-> AssetJson(v[k])])
    [] key = "performance" -> JDict([k \in DOMAIN v |-> PerformanceJson(k, v[k])])

\* Product(**clean_json) passes: the required fields are there and no field
\* holds a None where a str is declared (the other fields have the declared
\* types by construction of the record).
Validates(clean_json) ==
  /\ "product_id" \in DOMAIN clean_json /\ clean_json["product_id"] # None
  /\ "status" \in DOMAIN clean_json

\* Product(**clean_json).model_dump(): the declared fields, None for the ones
\* not given; the fields that Product does not declare are ignored.
model_dump(clean_json) ==
  LET \* The fields that Product declares.
      ProductFields ==
        {"product_id", "name", "description", "brand", "category", "status", "price_usd",
         "info", "specs", "bom", "accessories", "nameplate", "assets"}
  IN
  JDict([k \in ProductFields |->
           IF k \in DOMAIN clean_json THEN ToJson(k, clean_json[k]) ELSE JNone])

\* standardize_product_json(raw_json, metadata): the record it returns, whether
\* it went through validation, and raw_json afterwards (clean_json is a
\* shallow copy: the del statements act on the performance dict of raw_json).
standardize_product_json(raw_json, metadata) ==
  LET merged == Merge(extract_core_metadata(metadata), raw_json)
      popped == Without(merged, {"img_src", "pdf_src", "drawings"})
      pruned == IF HasItems(popped, "performance")
                  THEN Put(popped, "performance", PrunedPerformance(popped["performance"]))
                  ELSE popped
      clean_json == IF "parts" \in DOMAIN pruned /\ pruned["parts"] # <<>>
                      THEN Put(Without(pruned, {"parts"}), "bom",
                               deduplicate_bom(pruned["parts"]))
                      ELSE pruned
  IN  [validated |-> Validates(clean_json),
       record |-> IF Validates(clean_json)
                    THEN remove_empty_fields(model_dump(clean_json))
                    ELSE remove_empty_fields(
                           JDict([k \in DOMAIN clean_json |-> ToJson(k, clean_json[k])])),
       raw_json |-> IF HasItems(raw_json, "performance")
                      THEN Put(raw_json, "performance",
                               PrunedPerformance(raw_json["performance"]))
                      ELSE raw_json]

\* =============================================================== PIPELINE
\* Products that one run of main takes through the pipeline.
MaxProducts == 1

\* Two stubs of the search API: one with every attribute, one with none.
StubFull ==
  [code |-> "M2338T",
   attributes |-> << [name |-> "frame", values |-> <<"215T">>],
                     [name |-> "brand", values |-> <<"Baldor-Reliance">>] >>,
   categories |-> <<"AC Motors">>,
   listPrice |-> [present |-> TRUE, parsable |-> TRUE, cents |-> 129900, currency |-> "USD"],
   isDiscontinued |-> FALSE]
StubBare ==
  [code |-> "GPL3310",
   attributes |-> <<>>,
   categories |-> <<>>,
   listPrice |-> [present |-> FALSE, parsable |-> FALSE, cents |-> 0, currency |-> "USD"],
   isDiscontinued |-> TRUE]
Stubs == {StubFull, StubBare}

VARIABLES
  stage,       \* where main is in its loop body
  failure,     \* the stage whose exception ended main, "none" so far
  processed,   \* products that went through the whole loop body
  detail,      \* the detail page of the product in hand
  mdata,       \* its stub
  raw_data,    \* raw_data of main
  assets,      \* assets of main
  calls,       \* the calls of download_file of the last Downloader.run
  clean_json,  \* clean_json of main
  files,       \* the files written under output/assets
  saved        \* the JSON files written under output/, by name

pipelineVars ==
  <<stage, failure, processed, detail, mdata, raw_data, assets, calls, clean_json,
    files, saved>>

InitPipeline ==
  /\ stage = "next" /\ failure = "none" /\ processed = 0
  /\ detail = FullSoup /\ mdata = StubFull
  /\ raw_data = EmptyDict /\ assets = EmptyDict /\ clean_json = JDict(EmptyDict)
  /\ calls = <<>> /\ files = {} /\ saved = EmptyDict

\* main, lines 30-33: the next product; a fresh Parser runs on its page.
ParseProduct ==
  /\ stage = "next" /\ processed < MaxProducts
  /\ \E soup \in Soups, stub \in Stubs :
       LET r == ParserRun(EmptyDict, soup)
       IN  /\ detail' = soup /\ mdata' = stub
           /\ IF r.raised
                THEN /\ stage' = "aborted" /\ failure' = "parser"
                     /\ UNCHANGED raw_data
                ELSE /\ stage' = "parsed" /\ raw_data' = r.ret
                     /\ UNCHANGED failure
  /\ UNCHANGED <<processed, assets, calls, clean_json, files, saved>>

\* main, line 34: assets = downloader.run(raw_data)
DownloadAssets ==
  LET \* The destinations that the calls of download_file wrote.
      Written(made) == {made[i].destination : i \in {j \in 1..Len(made) : made[j].ok}}
  IN
  /\ stage = "parsed"
  /\ \E failed \in FailureSets :
       LET r == DownloaderRun(raw_data, failed)
       IN  /\ files' = files \cup Written(r.calls)
           /\ calls' = r.calls
           /\ raw_data' = r.json
           /\ IF r.raised
                THEN /\ stage' = "aborted" /\ failure' = "downloader"
                     /\ UNCHANGED assets
                ELSE /\ stage' = "downloaded" /\ assets' = r.assets
                     /\ UNCHANGED failure
  /\ UNCHANGED <<processed, detail, mdata, clean_json, saved>>

\* main, lines 36-39: raw_data["assets"] = assets, standardize_product_json,
\* save_dict_as_json under the sanitized product_id.
Standardize ==
  /\ stage = "downloaded"
  /\ LET r == standardize_product_json(Put(raw_data, "assets", assets), mdata)
     IN  /\ clean_json' = r.record
         /\ raw_data' = r.raw_json
         /\ IF "product_id" \in DOMAIN r.record.d
              THEN /\ saved' = Put(saved, sanitize_filename(r.record.d["product_id"].s),
                                   r.record)
                   /\ stage' = "next" /\ processed' = processed + 1
                   /\ UNCHANGED failure
              ELSE /\ stage' = "aborted" /\ failure' = "main"
                   /\ UNCHANGED <<saved, processed>>
  /\ UNCHANGED <<detail, mdata, assets, calls, files>>

\* --------------------------------------------------- the normalizer at work
\* Lines of the longest parts list given to standardize_product_json.
MaxBomLen == 3

\* The record that main hands over for the full page when every download
\* succeeds: raw_data with raw_data["assets"] = assets.
BaseRecord ==
  CHOOSE record \in
    {Put(r.json, "assets", r.assets) :
       r \in {DownloaderRun(parsed.ret, {}) : parsed \in {ParserRun(EmptyDict, FullSoup)}}} :
    TRUE

\* The record with values that are empty, or that hold nothing but empty
\* values: texts, a list of the nameplate, an accessories line, the manifest,
\* the performance section.
EmptyValueInputs(base) ==
  {Put(base, "specs", [frame |-> "", enclosure |-> ""]),
   Put(base, "info", [frame |-> "215T", enclosure |-> ""]),
   Put(base, "nameplate", [frame |-> "", EXTRAS |-> <<"", "NEMA NOM EFF 91.7">>]),
   Put(base, "nameplate", [EXTRAS |-> <<"">>]),
   Put(base, "accessories",
       << ("part_number" :> "" @@ "description" :> "" @@ "list price" :> ""),
          ("part_number" :> "36EP3100A05" @@ "description" :> "" @@ "list price" :> "114.00") >>),
   Put(base, "accessories",
       << ("part_number" :> "" @@ "description" :> "" @@ "list price" :> "") >>),
   Put(base, "assets",
       [image |-> unwrap(<<>>), manual |-> unwrap(<<>>), performance |-> unwrap(<<>>),
        renders |-> unwrap(<<>>), cads |-> unwrap(<<>>)]),
   Put(base, "performance",
       [description |-> "", general_characteristics |-> [frame |-> ""],
        load_characteristics |-> [metric |-> "", Amps |-> ("50" :> "" @@ "100" :> "")],
        performance_curves |-> <<>>, associated_urls |-> <<"">>]),
   Put(base, "parts", <<>>)}

\* Values of a page for the keys that the stub also gives; "" for some.
PageCore ==
  [name |-> <<"from_page">>, brand |-> "ABB", category |-> "",
   price_usd |-> <<>>, status |-> "obsolete"]

\* Raw records made from one record of a page.
InputsFrom(base) ==
  LET \* Lines of parts tables.
      BomLines ==
        [part_number : {"SA011385", "HW1001A25"},
         description : {"Bearing", "Washer"},
         quantity : {"1.000 EA", "2.500 EA", "N/A"}]
      \* The record with every parts list of up to MaxBomLen lines.
      BomInputs == {Put(base, "parts", bom) : bom \in SeqsUpTo(BomLines, MaxBomLen)}
      \* The records of empty values, and the record itself, without product_id,
      \* and with the None of a page without title; the {} of a failed fetch.
      NoIdInputs ==
        {Without(r, {"product_id"}) : r \in EmptyValueInputs(base) \cup {base}}
        \cup {Put(r, "product_id", None) : r \in EmptyValueInputs(base) \cup {base}}
        \cup {EmptyDict}
      \* The record, with and without product_id, with any of the keys that the
      \* stub also gives.
      OverlapInputs ==
        {Merge(r, [k \in keys |-> PageCore[k]]) :
           r \in {base, Without(base, {"product_id"})},
           keys \in SUBSET DOMAIN PageCore}
      \* The record with both lists of links in its performance section, with
      \* and without product_id; the record of a page with an empty title.
      LinkInputs ==
        LET r == Put(base, "performance",
                     Put(base["performance"], "associated_urls", <<"/curves/M2338T.pdf">>))
        IN  {r, Without(r, {"product_id"}), Put(base, "product_id", "")}
  IN  BomInputs \cup EmptyValueInputs(base) \cup NoIdInputs \cup OverlapInputs \cup LinkInputs

\* The raw records given to standardize_product_json.
NormInputs == UNION {InputsFrom(base) : base \in {BaseRecord}}

VARIABLES
  standardized,  \* standardize_product_json was called
  std_raw,       \* raw_json of the call, as the caller holds it before
  std_meta,      \* metadata of the call
  std_out        \* what the call came to

normalizerVars == <<standardized, std_raw, std_meta, std_out>>

NotStandardized ==
  [validated |-> FALSE, record |-> JDict(EmptyDict), raw_json |-> EmptyDict]

\* No call of standardize_product_json is under way.
IdleNormalizer ==
  /\ standardized = FALSE
  /\ std_raw = EmptyDict /\ std_meta = StubBare
  /\ std_out = NotStandardized

\* The arguments of a call: a raw record and a stub.
InitNormalizer ==
  /\ standardized = FALSE
  /\ std_raw \in NormInputs /\ std_meta \in Stubs
  /\ std_out = NotStandardized

\* standardize_product_json(raw_json, metadata)
Normalize ==
  /\ ~standardized
  /\ standardized' = TRUE
  /\ std_out' = standardize_product_json(std_raw, std_meta)
  /\ UNCHANGED <<std_raw, std_meta>>

\* ---------------------------------------------- claims on the normalizer
\* C29: Downloader.run and standardize_product_json leave the record passed
\* to them as it was, its performance section with performance_curves and
\* associated_urls included.
C29_RawRecordUnchanged ==
  /\ \A m \in 1..Len(manifests) : manifests[m].after = manifests[m].json
  /\ standardized => std_out.raw_json = std_raw

FirstIndex(bom, part_number) ==
  CHOOSE i \in 1..Len(bom) :
    bom[i].part_number = part_number /\ \A j \in 1..(i - 1) : bom[j].part_number # part_number

\* The sum of the leading magnitudes of the lines of a part number, in
\* thousandths.
RECURSIVE TotalQty(_, _, _)
TotalQty(bom, part_number, n) ==
  IF n = 0 THEN 0
  ELSE TotalQty(bom, part_number, n - 1)
       + (IF bom[n].part_number = part_number THEN QtyValue(bom[n].quantity) ELSE 0)

\* C16: the bom of the record has exactly one line per distinct part_number of
\* the parts list, ordered by first occurrence; the quantity of a line is the
\* sum of the leading magnitudes of the lines of that part_number (0 for an
\* unparsable one) with three decimals and the suffix " EA", its description
\* the last one seen; the list is stored under bom in place of parts.
C16_BomDeduplicated ==
  LET \* The part numbers of a parts list, and the lines of one part number.
      PartNumbers(bom) == {bom[i].part_number : i \in 1..Len(bom)}
  IN
  LET LastIndex(bom, part_number) ==
        CHOOSE i \in 1..Len(bom) :
          bom[i].part_number = part_number
            /\ \A j \in (i + 1)..Len(bom) : bom[j].part_number # part_number
  IN
  (standardized /\ "parts" \in DOMAIN std_raw /\ std_raw["parts"] # <<>>) =>
    LET parts == std_raw["parts"]
        record == std_out.record.d
        bom == record["bom"].items
    IN  /\ "bom" \in DOMAIN record /\ "parts" \notin DOMAIN record
        /\ Len(bom) = Cardinality(PartNumbers(parts))
        /\ \A i \in 1..Len(bom) :
             LET pn == bom[i].d["part_number"].s
             IN  /\ pn \in PartNumbers(parts)
                 /\ \A j \in 1..Len(bom) :
                      i < j => FirstIndex(parts, pn)
                                 < FirstIndex(parts, bom[j].d["part_number"].s)
                 /\ bom[i].d["quantity"] =
                      JText(<<[thousandths |-> TotalQty(parts, pn, Len(parts)),
                               suffix |-> " EA"]>>)
                 /\ bom[i].d["description"].s = parts[LastIndex(parts, pn)].description

\* The example of the specification: A 1.000, A 2.500, B 1.000 gives A 3.500,
\* B 1.000, with a description that changed between the two lines of A.
C16_Witness ==
  /\ standardized
  /\ "parts" \in DOMAIN std_raw /\ Len(std_raw["parts"]) = 3
  /\ std_raw["parts"][1] =
       [part_number |-> "SA011385", description |-> "Washer", quantity |-> "1.000 EA"]
  /\ std_raw["parts"][2] =
       [part_number |-> "HW1001A25", description |-> "Washer", quantity |-> "1.000 EA"]
  /\ std_raw["parts"][3] =
       [part_number |-> "SA011385", description |-> "Bearing", quantity |-> "2.500 EA"]
  /\ Len(std_out.record.d["bom"].items) = 2
  /\ std_out.record.d["bom"].items[1].d["description"].s = "Bearing"

\* A JSON value holds no empty value at any depth.
RECURSIVE NoEmptyInside(_)
NoEmptyInside(v) ==
  IF v.t = "dict"
    THEN \A k \in DOMAIN v.d : ~IsEmpty(v.d[k]) /\ NoEmptyInside(v.d[k])
  ELSE IF v.t = "list"
    THEN \A i \in 1..Len(v.items) : ~IsEmpty(v.items[i]) /\ NoEmptyInside(v.items[i])
  ELSE TRUE

\* C17: every record standardize_product_json returns, validated or not,
\* holds no empty value at any depth: no key and no list element whose value
\* is None, "", [] or {}, also when it became empty by the removal of its
\* children.
C17_NoEmptyValueAtAnyDepth ==
  standardized => NoEmptyInside(std_out.record)

\* A validated record whose specs held nothing but empty texts: the key is
\* gone; and a record that was not validated.
C17_Witness ==
  /\ standardized /\ std_out.validated
  /\ "specs" \in DOMAIN std_raw /\ DOMAIN std_raw["specs"] # {}
  /\ \A k \in DOMAIN std_raw["specs"] : std_raw["specs"][k] = ""
  /\ "specs" \notin DOMAIN std_out.record.d
  /\ "info" \in DOMAIN std_out.record.d

\* C18: for every key present both in the metadata derived from the stub and
\* in the raw record, the record carries the value of the raw record (nothing
\* when that value is empty, never the value derived from the stub).
C18_RawRecordWinsMerge ==
  LET \* The keys that extract_core_metadata derives from the stub.
      CoreKeys == {"name", "brand", "category", "price_usd", "status"}
  IN
  standardized =>
    \A k \in CoreKeys \cap DOMAIN std_raw :
      IF IsEmpty(ToJson(k, std_raw[k]))
        THEN k \notin DOMAIN std_out.record.d
        ELSE k \in DOMAIN std_out.record.d /\ std_out.record.d[k] = ToJson(k, std_raw[k])

\* A raw record with a name and a status of its own, next to a stub that gives
\* other ones.
C18_Witness ==
  /\ standardized /\ std_out.validated
  /\ {"name", "status"} \subseteq DOMAIN std_raw
  /\ extract_core_metadata(std_meta)["name"] # std_raw["name"]
  /\ extract_core_metadata(std_meta)["status"] # std_raw["status"]
  /\ std_out.record.d["name"] = JText(<<"from_page">>)
  /\ std_out.record.d["status"] = JStr("obsolete")

\* C19: no record standardize_product_json returns, validated or not, has the
\* keys img_src, pdf_src or drawings at top level, nor performance_curves or
\* associated_urls inside performance.
C19_TransientFieldsDropped ==
  standardized =>
    LET record == std_out.record.d
    IN  /\ DOMAIN record \cap {"img_src", "pdf_src", "drawings"} = {}
        /\ "performance" \in DOMAIN record =>
             DOMAIN record["performance"].d
               \cap {"performance_curves", "associated_urls"} = {}

\* An unvalidated record that keeps its performance section, from a raw record
\* with both lists of links, an image, a manual and drawings.
C19_Witness ==
  /\ standardized /\ ~std_out.validated
  /\ {"img_src", "pdf_src", "drawings", "performance"} \subseteq DOMAIN std_raw
  /\ {"performance_curves", "associated_urls"} \subseteq DOMAIN std_raw["performance"]
  /\ std_raw["performance"]["performance_curves"] # <<>>
  /\ std_raw["performance"]["associated_urls"] # <<>>
  /\ "performance" \in DOMAIN std_out.record.d

\* C20: standardize_product_json always returns a record: the validated one,
\* which holds product_id and status, when the merged structure has a
\* product_id and a status of the declared type, the cleaned merged structure
\* otherwise.
C20_ValidatedRecordHoldsRequiredFields ==
  standardized =>
    /\ std_out.validated <=>
         ("product_id" \in DOMAIN std_raw /\ std_raw["product_id"] # None)
    /\ std_out.validated => {"product_id", "status"} \subseteq DOMAIN std_out.record.d
    /\ ~std_out.validated =>
         \A k \in DOMAIN std_raw \cap {"description", "info", "specs"} :
           ~IsEmpty(remove_empty_fields(ToJson(k, std_raw[k])))
             => k \in DOMAIN std_out.record.d

\* ------------------------------------------------- claims on the pipeline

\* C8: for a product whose drawings tab holds a JSON block that fails to
\* parse, the drawings section of the raw record is empty, its specs and parts
\* sections are populated, and Downloader.run and standardize_product_json
\* complete without raising.
C8_UndecodableDrawingsAreContained ==
  LET \* The page lists a drawings tab whose ng-init holds a JSON block that does
      \* not decode.
      UndecodableDrawings(soup) ==
        /\ soup.fetch = "ok" /\ "drawings" \in ListedSections(soup)
        /\ soup.drawings.pane /\ soup.drawings.cadfiles
        /\ \E i \in 1..Len(soup.drawings.blocks) : ~soup.drawings.blocks[i].valid
  IN
  (UndecodableDrawings(detail) /\ stage # "next" /\ failure # "parser") =>
    /\ raw_data["drawings"].imgs = <<>> /\ raw_data["drawings"].cads = <<>>
    /\ "specs" \in ListedSections(detail) => DOMAIN raw_data["specs"] # {}
    /\ "parts" \in ListedSections(detail) => raw_data["parts"] # <<>>
    /\ failure = "none"

\* The paths that a manifest lists.
ManifestPaths(manifest) ==
  UNION {{manifest[k].items[i] : i \in 1..Len(manifest[k].items)} : k \in DOMAIN manifest}

\* C12: every path in the manifest that Downloader.run returns names an asset
\* whose download succeeded; a failed download leaves no entry.
C12_ManifestListsOnlyDownloadedAssets ==
  LET \* The file under output/ that a path of the manifest names.
      OnDisk(path) == [path EXCEPT !.root = "output/assets"]
  IN
  stage = "downloaded" =>
    \A path \in ManifestPaths(assets) :
      \E i \in 1..Len(calls) : calls[i].destination = OnDisk(path) /\ calls[i].ok

\* C13: Downloader.run returns a manifest and raises nothing for every record
\* that Parser.run can return, also one without drawings section, with an
\* empty drawings section or without product_id.
C13_DownloaderNeverRaises ==
  stage \in {"downloaded", "aborted"} => failure # "downloader"

\* C14: for performance, renders and cads, a list of exactly one path is
\* exposed as that bare path, a list of two or more as the list itself, in
\* download order.
C14_ManifestCollapsing ==
  LET \* The relative paths of the downloads of a manifest field, in download order.
      DownloadOrder(field) ==
        LET \* The manifest field that the file of a call of download_file belongs to.
            FieldOf(file) ==
              CASE file.stem = "img" /\ file.ext = "jpg" /\ file.n = -1 -> "image"
                [] file.stem = "manual" /\ file.ext = "pdf" /\ file.n = -1 -> "manual"
                [] file.stem = "performance_curve" /\ file.n >= 0 -> "performance"
                [] file.stem = "render" /\ file.n >= 0 -> "renders"
                [] OTHER -> "cads"
        IN
        LET made == SelectSeq(calls, LAMBDA c : FieldOf(c.destination.file) = field)
        IN  [i \in 1..Len(made) |-> [made[i].destination EXCEPT !.root = "assets"]]
  IN
  stage = "downloaded" =>
    \A field \in {"performance", "renders", "cads"} :
      LET paths == DownloadOrder(field)
      IN  /\ assets[field].items = paths
          /\ assets[field].bare <=> Len(paths) = 1

\* A manifest with a bare render path and a list of two performance paths.
C14_Witness ==
  /\ stage = "downloaded"
  /\ assets["renders"].bare /\ Len(assets["renders"].items) = 1
  /\ ~assets["performance"].bare /\ Len(assets["performance"].items) = 2
  /\ assets["performance"].items[1] # assets["performance"].items[2]

\* ----------------------------------------------- claims on the Downloader
\* The files that a run of the Downloader asked download_file to write.
Destinations(made) == {made[i].destination : i \in 1..Len(made)}

\* C15: for any two products with different product identifiers, no asset
\* path written, or listed in the manifest, for one equals an asset path of
\* the other.
C15_NoCrossProductContention ==
  \A i, j \in 1..Len(manifests) :
    (/\ ~manifests[i].raised /\ ~manifests[j].raised
     /\ manifests[i].json["product_id"] # manifests[j].json["product_id"])
    => /\ Destinations(manifests[i].calls) \cap Destinations(manifests[j].calls) = {}
       /\ ManifestPaths(manifests[i].assets) \cap ManifestPaths(manifests[j].assets) = {}

\* ====================================================== RETRYING SESSION
\* Retry(total=total, ...) of create_resilient_session.
total == 5
status_forcelist == {500, 502, 503, 504}

\* Retry.is_retry as the adapter of the session applies it to a response.
is_retry(method, status_code, has_retry_after) ==
  LET allowed_methods == {"HEAD", "GET", "OPTIONS"}
      \* Retry is built without respect_retry_after_header, which urllib3 then
      \* leaves switched on: the statuses it retries when the response carries
      \* a Retry-After header.
      RETRY_AFTER_STATUS_CODES == {413, 429, 503}
  IN  /\ method \in allowed_methods
      /\ \/ status_code \in status_forcelist
         \/ total # 0 /\ has_retry_after /\ status_code \in RETRY_AFTER_STATUS_CODES

VARIABLES
  attempts,   \* attempts of the GET made so far
  retries,    \* Retry.total still left
  retried,    \* history: the answers after which the GET was attempted again
  outcome     \* "pending", "response" (with its status) or "raised"

sessionVars == <<attempts, retries, retried, outcome>>

\* session.get(url) is called on a session of create_resilient_session.
InitSession ==
  /\ attempts = 0 /\ retries = total /\ retried = {}
  /\ outcome = [kind |-> "pending", status_code |-> 0]

\* One attempt of the GET in HTTPAdapter.send / urlopen: the answer is handed
\* back, or the retry budget is decremented and the GET attempted again, or
\* the exhausted budget raises (MaxRetryError, a RequestException to the
\* caller).
Attempt ==
  LET \* What the server does with one attempt of a GET: an answer with a status,
      \* with or without a Retry-After header, or a connection failure or timeout
      \* (status 0).
      Answers ==
        [kind : {"response"}, status_code : {200, 404, 413, 429, 500, 502, 503, 504},
         retry_after : BOOLEAN]
        \cup {[kind |-> "error", status_code |-> 0, retry_after |-> FALSE]}
  IN
  /\ outcome.kind = "pending"
  /\ attempts' = attempts + 1
  /\ \E answer \in Answers :
       IF answer.kind = "response"
            /\ ~is_retry("GET", answer.status_code, answer.retry_after)
         THEN /\ outcome' = [kind |-> "response", status_code |-> answer.status_code]
              /\ UNCHANGED <<retries, retried>>
         ELSE IF retries = 0
         THEN /\ outcome' = [kind |-> "raised", status_code |-> answer.status_code]
              /\ UNCHANGED <<retries, retried>>
         ELSE /\ retries' = retries - 1
              /\ retried' = retried \cup {answer}
              /\ UNCHANGED outcome

\* ------------------------------------------------ claims on the session
\* C22: a GET through the session of create_resilient_session is attempted
\* again only after a server-error status (500, 502, 503, 504) or a connection
\* failure, at most 5 times (6 attempts in all); a response with a 4xx status
\* is handed back without any further attempt.
C22_RetriesOnlyOnServerErrors ==
  /\ attempts <= 6
  /\ \A answer \in retried :
       answer.kind = "error" \/ answer.status_code \in {500, 502, 503, 504}

\* ================================================================ LOGGER
\* Messages logged in one run of the model.
MaxLogs == 1

\* The names that loggers are asked for.
LoggerNames == {"Parser", "Downloader"}

VARIABLES
  loggers,  \* the registry of logging.getLogger: level and handlers by name
  asked,    \* history: by name, what the latest get_logger call asked for
  logged    \* history: the messages logged, and whether logs/project.log got them

loggerVars == <<loggers, asked, logged>>

\* logging.getLogger(name) of a name not seen before: NOTSET, no handler; no
\* component holds a logger yet.
InitLoggers ==
  /\ loggers = [n \in LoggerNames |-> [level |-> 0, handlers |-> {}]]
  /\ asked = [n \in LoggerNames |-> [held |-> FALSE, to_file |-> FALSE, level |-> 0]]
  /\ logged = <<>>

\* get_logger on the logger that the registry holds for the name.
get_logger(logger, to_console, to_file, level) ==
  IF logger.handlers = {}
    THEN [level |-> level,
          handlers |-> (IF to_console THEN {"console"} ELSE {})
                         \cup (IF to_file THEN {"file"} ELSE {})]
    ELSE logger

\* A component asks for its logger.
GetLogger ==
  /\ \E n \in LoggerNames, to_console, to_file \in BOOLEAN, level \in {20, 40} :
       /\ loggers' = [loggers EXCEPT ![n] = get_logger(loggers[n], to_console, to_file, level)]
       /\ asked' = [asked EXCEPT ![n] = [held |-> TRUE, to_file |-> to_file, level |-> level]]
  /\ UNCHANGED logged

\* logger.info / warning / error on the logger that the latest get_logger call
\* for a name returned: the logger passes the message on when its level allows
\* it, and the file handler, set to the same level, appends it to
\* logs/project.log.
LogMessage ==
  /\ Len(logged) < MaxLogs
  /\ \E n \in LoggerNames, levelno \in {20, 30, 40} :  \* INFO, WARNING, ERROR
       /\ asked[n].held
       /\ logged' = Append(logged,
            [name |-> n, to_file |-> asked[n].to_file, level |-> asked[n].level,
             levelno |-> levelno,
             in_file |-> /\ levelno >= loggers[n].level
                         /\ "file" \in loggers[n].handlers])
  /\ UNCHANGED <<loggers, asked>>

\* ------------------------------------------------- claims on the logger
\* C23: every message logged at INFO, WARNING or ERROR through a logger that
\* get_logger(name, to_file=True) returned (at the default level INFO, or at
\* a level that the message reaches) is written to logs/project.log, whatever
\* get_logger calls came before.
C23_FileLoggerWritesToFile ==
  \A i \in 1..Len(logged) :
    (logged[i].to_file /\ logged[i].levelno >= logged[i].level) => logged[i].in_file

\* ============================================================== the whole
vars == <<crawlerVars, parserVars, downloaderVars, pipelineVars, normalizerVars,
          sessionVars, loggerVars>>

\* The crawl against an API that honours its interface: every match is a map
\* with a code.
Init == InitCrawler /\ matchKinds = {"map"} /\ InitParser /\ InitDownloader /\ InitPipeline
  /\ IdleNormalizer /\ InitSession /\ InitLoggers
Next ==
  \/ StartPlaywright /\ UNCHANGED <<parserVars, downloaderVars, pipelineVars, normalizerVars, sessionVars, loggerVars>>
  \/ LaunchBrowser /\ UNCHANGED <<parserVars, downloaderVars, pipelineVars, normalizerVars, sessionVars, loggerVars>>
  \/ NewPage /\ UNCHANGED <<parserVars, downloaderVars, pipelineVars, normalizerVars, sessionVars, loggerVars>>
  \/ ExtractCategoryNames /\ UNCHANGED <<parserVars, downloaderVars, pipelineVars, normalizerVars, sessionVars, loggerVars>>
  \/ OpenCategoryPage /\ UNCHANGED <<parserVars, downloaderVars, pipelineVars, normalizerVars, sessionVars, loggerVars>>
  \/ ResolveCategoryUrl /\ UNCHANGED <<parserVars, downloaderVars, pipelineVars, normalizerVars, sessionVars, loggerVars>>
  \/ RequestPage /\ UNCHANGED <<parserVars, downloaderVars, pipelineVars, normalizerVars, sessionVars, loggerVars>>
  \/ Teardown /\ UNCHANGED <<parserVars, downloaderVars, pipelineVars, normalizerVars, sessionVars, loggerVars>>
Spec == Init /\ [][Next]_vars

\* Crawler.run is one sequential thread: it takes its next step whenever it
\* has one (every GET has a timeout and a bounded number of retries).
SpecCrawlerFair == Init /\ [][Next]_vars /\ WF_vars(Next)

\* Parser instances running on detail pages.
InitP == InitCrawler /\ matchKinds = {"map"} /\ InitParser /\ InitDownloader /\ InitPipeline
  /\ IdleNormalizer /\ InitSession /\ InitLoggers
NextP ==
  \/ NewParser /\ UNCHANGED <<crawlerVars, downloaderVars, pipelineVars, normalizerVars, sessionVars, loggerVars>>
  \/ Run /\ UNCHANGED <<crawlerVars, downloaderVars, pipelineVars, normalizerVars, sessionVars, loggerVars>>
SpecParser == InitP /\ [][NextP]_vars

\* main taking products through Parser, Downloader and normalizer.
InitM == InitCrawler /\ matchKinds = {"map"} /\ InitParser /\ InitDownloader /\ InitPipeline
  /\ IdleNormalizer /\ InitSession /\ InitLoggers
NextM ==
  \/ ParseProduct /\ UNCHANGED <<crawlerVars, parserVars, downloaderVars, normalizerVars, sessionVars, loggerVars>>
  \/ DownloadAssets /\ UNCHANGED <<crawlerVars, parserVars, downloaderVars, normalizerVars, sessionVars, loggerVars>>
  \/ Standardize /\ UNCHANGED <<crawlerVars, parserVars, downloaderVars, normalizerVars, sessionVars, loggerVars>>
SpecPipeline == InitM /\ [][NextM]_vars

\* Downloaders running on the records of products.
InitD == InitCrawler /\ matchKinds = {"map"} /\ InitParser /\ InitDownloader /\ InitPipeline
  /\ IdleNormalizer /\ InitSession /\ InitLoggers
NextD ==
  \/ RunDownloader /\ UNCHANGED <<crawlerVars, parserVars, pipelineVars, normalizerVars, sessionVars, loggerVars>>
SpecDownloader == InitD /\ [][NextD]_vars

\* standardize_product_json applied to raw records and stubs.
InitN == InitCrawler /\ matchKinds = {"map"} /\ InitParser /\ InitDownloader /\ InitPipeline
  /\ InitNormalizer /\ InitSession /\ InitLoggers
NextN ==
  \/ Normalize /\ UNCHANGED <<crawlerVars, parserVars, downloaderVars, pipelineVars, sessionVars, loggerVars>>
SpecNormalizer == InitN /\ [][NextN]_vars

\* A GET through the retrying session.
InitS == InitCrawler /\ matchKinds = {"map"} /\ InitParser /\ InitDownloader /\ InitPipeline
  /\ IdleNormalizer /\ InitSession /\ InitLoggers
NextS ==
  \/ Attempt /\ UNCHANGED <<crawlerVars, parserVars, downloaderVars, pipelineVars, normalizerVars, loggerVars>>
SpecSession == InitS /\ [][NextS]_vars

\* Components asking for loggers and logging through them.
InitL == InitCrawler /\ matchKinds = {"map"} /\ InitParser /\ InitDownloader /\ InitPipeline
  /\ IdleNormalizer /\ InitSession /\ InitLoggers
NextL ==
  \/ GetLogger /\ UNCHANGED <<crawlerVars, parserVars, downloaderVars, pipelineVars, normalizerVars, sessionVars>>
  \/ LogMessage /\ UNCHANGED <<crawlerVars, parserVars, downloaderVars, pipelineVars, normalizerVars, sessionVars>>
SpecLogger == InitL /\ [][NextL]_vars

\* Crawler.run against a listing API that also serves malformed matches:
\* matches that are no maps, or maps without a code.
InitApi == InitCrawler /\ matchKinds \in {{"map", "notmap"}, {"map", "nocode"}}
  /\ InitParser /\ InitDownloader /\ InitPipeline
  /\ IdleNormalizer /\ InitSession /\ InitLoggers
SpecApi == InitApi /\ [][Next]_vars

====
